---- MODULE Spec2Model ----
(***************************************************************************)
(* A model of Theta291/JsonHandling:                                       *)
(*   src/json_handling/specifier.py    Token, Specifier.apply              *)
(*   src/json_handling/json_to_csv.py  JsonProcessor.make_csv,             *)
(*                                     conditional_product, _curr_gen      *)
(*                                                                         *)
(* Python values are records [k |-> kind, v |-> payload]:                  *)
(*   "num"   a number, boolean or None (not subscriptable, not iterable)   *)
(*   "str"   a text string, payload the sequence of its characters         *)
(*   "list"  a list, payload the sequence of its elements                  *)
(*   "tuple" a tuple (the rows zip and _curr_gen build)                    *)
(*   "map"   a dict, payload the sequence of <<name, value>> entries in    *)
(*           insertion order                                               *)
(*   "error" a raised exception, payload the exception's class name        *)
(*   "iterobj" a one-shot iterator object (iter(x) is x), payload the      *)
(*           elements it yields; how far it has advanced is in heap        *)
(*   "iterator" the private iterator iter() makes over a container,        *)
(*           payload the number of elements it has yielded                 *)
(*   "mask", "function", "map_object" the selectors of conditional_product *)
(***************************************************************************)
EXTENDS Integers, Sequences, FiniteSets, TLC

VARIABLES
    json,       \* the document: Specifier.apply's argument, JsonProcessor.json
    tuple,      \* Specifier.tuple: the steps of the specifier
    result,     \* what the call returned, or the exception that left it
    phase,      \* "input" before the call, "applied" after it
    column_specifiers,  \* make_csv: <<column name, specifier tuple>> in dict order
    context_specifier,  \* make_csv: the specifier tuple applied first
    take_product,       \* make_csv: whether rows are expanded
    vals,       \* conditional_product: the row, a sequence of cells
    key,        \* conditional_product: the selector argument
    gen,        \* the generator objects conditional_product returned
    heap,       \* per cell, how far a one-shot iterator held in it has advanced
    out,        \* per generator, the tuples its consumer has received
    trail       \* per generator, the iterator positions behind each tuple

specifierVars == <<json, tuple, result, phase>>
csvVars == <<column_specifiers, context_specifier, take_product>>
productVars == <<vals, key, gen, heap, out, trail>>
vars == <<json, tuple, result, phase, column_specifiers, context_specifier, take_product,
          vals, key, gen, heap, out, trail>>

----------------------------------------------------------------------------
(* Values *)

Num(n) == [k |-> "num", v |-> n]
Str(cs) == [k |-> "str", v |-> cs]
List(s) == [k |-> "list", v |-> s]
Tuple(s) == [k |-> "tuple", v |-> s]
Map(es) == [k |-> "map", v |-> es]
Err(e) == [k |-> "error", v |-> e]
None == [k |-> "none", v |-> 0]

IsErr(x) == x.k = "error"
IsList(x) == x.k = "list"

\* The steps of a specifier tuple: a string name, an integer index or a Token.
Name(s) == [k |-> "name", v |-> s]
Index(i) == [k |-> "index", v |-> i]
KEEP_ALL == [k |-> "token", v |-> "KEEP_ALL"]
FLATTEN == [k |-> "token", v |-> "FLATTEN"]
UNPACK == [k |-> "token", v |-> "UNPACK"]
tokens == {KEEP_ALL, FLATTEN, UNPACK}

RECURSIVE Concat(_)
\* sum(lists, start=[]) over a sequence of list payloads
Concat(ss) == IF ss = <<>> THEN <<>> ELSE Head(ss) \o Concat(Tail(ss))

\* iter(val) succeeds: lists, tuples, strings and dicts are iterable
IsIterable(val) == val.k \in {"list", "tuple", "str", "map"}

\* The elements a for loop over val visits, in order (val iterable):
\* a string yields its characters, a dict its keys.
Elements(val) ==
    CASE val.k \in {"list", "tuple"} -> val.v
      [] val.k = "str" -> [i \in 1..Len(val.v) |-> Str(<<val.v[i]>>)]
      [] val.k = "map" -> [i \in 1..Len(val.v) |-> Str(<<val.v[i][1]>>)]

----------------------------------------------------------------------------
(* Token.flatten, Token.unpack *)

\* Mutant of flatten: the elements are not flattened themselves.
flatten_one_level(lists) ==
    IF lists.k = "list"
    THEN List(Concat([i \in 1..Len(lists.v) |->
                        IF lists.v[i].k = "list" THEN lists.v[i].v ELSE <<lists.v[i]>>]))
    ELSE List(<<lists>>)

RECURSIVE flatten(_)
flatten(lists) ==
    IF lists.k = "list"
    THEN List(Concat([i \in 1..Len(lists.v) |-> flatten(lists.v[i]).v]))
    ELSE List(<<lists>>)

\* sum(lists, start=[]) raises TypeError when lists is not iterable or when an
\* element cannot be added to a list; unpack then returns its argument.
unpack(lists) ==
    IF ~IsIterable(lists) THEN lists
    ELSE LET elts == Elements(lists) IN
         IF \A i \in 1..Len(elts) : elts[i].k = "list"
         THEN List(Concat([i \in 1..Len(elts) |-> elts[i].v]))
         ELSE lists

----------------------------------------------------------------------------
(* Specifier.apply *)

\* Mutant of GetItem: a lookup that finds nothing gives None (dict.get).
GetItem_or_none(doc, name) ==
    CASE doc.k = "map" ->
            IF name.k = "name" /\ \E i \in 1..Len(doc.v) : doc.v[i][1] = name.v
            THEN doc.v[CHOOSE i \in 1..Len(doc.v) : doc.v[i][1] = name.v][2]
            ELSE None
      [] doc.k \in {"list", "tuple", "str"} ->
            IF name.k # "index" THEN Err("TypeError")
            ELSE IF name.v >= 0 /\ name.v < Len(doc.v)
                 THEN (IF doc.k = "str" THEN Str(<<doc.v[name.v + 1]>>)
                       ELSE doc.v[name.v + 1])
            ELSE None
      [] OTHER -> Err("TypeError")

\* json[name]: the value, or the exception the subscription raises.
GetItem(doc, name) ==
    CASE doc.k = "map" ->
            IF name.k = "name" /\ \E i \in 1..Len(doc.v) : doc.v[i][1] = name.v
            THEN doc.v[CHOOSE i \in 1..Len(doc.v) : doc.v[i][1] = name.v][2]
            ELSE Err("KeyError")
      [] doc.k \in {"list", "tuple", "str"} ->
            IF name.k # "index" THEN Err("TypeError")
            ELSE IF name.v >= 0 /\ name.v < Len(doc.v)
                 THEN (IF doc.k = "str" THEN Str(<<doc.v[name.v + 1]>>)
                       ELSE doc.v[name.v + 1])
            ELSE IF name.v < 0 /\ -name.v <= Len(doc.v)
                 THEN (IF doc.k = "str" THEN Str(<<doc.v[Len(doc.v) + name.v + 1]>>)
                       ELSE doc.v[Len(doc.v) + name.v + 1])
            ELSE Err("IndexError")
      [] OTHER -> Err("TypeError")

\* The depth of nested Specifier.apply calls at which the interpreter gives up
\* with RecursionError.
RecursionLimit == 12

RECURSIVE apply_(_, _, _)
RECURSIVE ApplyEach(_, _, _)

\* [spec.apply(v) for v in elts]: the first exception leaves the comprehension.
ApplyEach(spec, elts, depth) ==
    IF elts = <<>> THEN List(<<>>)
    ELSE LET r == apply_(spec, Head(elts), depth) IN
         IF IsErr(r) THEN r
         ELSE LET rs == ApplyEach(spec, Tail(elts), depth) IN
              IF IsErr(rs) THEN rs ELSE List(<<r>> \o rs.v)

\* [spec.apply(v) for v in json]: TypeError when json is not iterable.
Broadcast(spec, doc, depth) ==
    IF IsIterable(doc) THEN ApplyEach(spec, Elements(doc), depth)
    ELSE Err("TypeError")

\* Mutant of TokenApply: KEEP_ALL hands the Sequence itself to the rest of the
\* specifier.
TokenApply_keep_all_on_sequence(name, spec, doc, depth) ==
    CASE name = KEEP_ALL -> apply_(spec, doc, depth)
      [] name = FLATTEN ->
            LET v == apply_(spec, doc, depth) IN
            IF IsErr(v) THEN v ELSE flatten(v)
      [] name = UNPACK ->
            LET v == apply_(spec, doc, depth) IN
            IF IsErr(v) THEN v ELSE unpack(v)

\* Token.apply: the three token lambdas.
TokenApply(name, spec, doc, depth) ==
    CASE name = KEEP_ALL -> Broadcast(spec, doc, depth)
      [] name = FLATTEN ->
            LET v == apply_(spec, doc, depth) IN
            IF IsErr(v) THEN v ELSE flatten(v)
      [] name = UNPACK ->
            LET v == apply_(spec, doc, depth) IN
            IF IsErr(v) THEN v ELSE unpack(v)

\* Mutant of KeyApply: the broadcast applies only the rest of the specifier.
KeyApply_broadcast_rest(spec, doc, depth) ==
    LET name == Head(spec)
        rest == Tail(spec)
        got == GetItem(doc, name)
    IN  IF IsErr(got) /\ got.v = "TypeError"
        THEN Broadcast(rest, doc, depth)
        ELSE IF IsErr(got) THEN got
        ELSE IF rest # <<>> THEN apply_(rest, got, depth)
        ELSE got

\* What apply does with a regular key.
KeyApply(spec, doc, depth) ==
    LET name == Head(spec)
        rest == Tail(spec)
        got == GetItem(doc, name)
    IN  IF IsErr(got) /\ got.v = "TypeError"
        THEN Broadcast(spec, doc, depth)
        ELSE IF IsErr(got) THEN got
        ELSE IF rest # <<>> THEN apply_(rest, got, depth)
        ELSE got

\* Specifier(spec).apply(doc), entered at the given call depth.
apply_(spec, doc, depth) ==
    IF depth > RecursionLimit THEN Err("RecursionError")
    ELSE IF spec = <<>> THEN doc
    ELSE IF Head(spec) \in tokens
         THEN TokenApply(Head(spec), Tail(spec), doc, depth + 1)
         ELSE KeyApply(spec, doc, depth + 1)

apply(spec, doc) == apply_(spec, doc, 1)

Greatest(S) == CHOOSE n \in S : \A m \in S : m <= n

RECURSIVE Reapplications_(_, _, _)

\* The number of nested calls other_spec.apply(v) with the same tuple that
\* Specifier(spec).apply(doc), entered at the given call depth, makes: one
\* for the broadcast and the most that any element it reaches adds. The
\* comprehension reaches an element when no earlier element raised.
Reapplications_(spec, doc, depth) ==
    IF depth > RecursionLimit \/ spec = <<>> THEN 0
    ELSE IF Head(spec) \in tokens THEN 0
    ELSE LET got == GetItem(doc, Head(spec))
             elts == Elements(doc)
             reached == {i \in 1..Len(elts) :
                            \A j \in 1..(i - 1) : ~IsErr(apply_(spec, elts[j], depth + 1))}
         IN  IF IsErr(got) /\ got.v = "TypeError" /\ IsIterable(doc) /\ elts # <<>>
             THEN 1 + Greatest({Reapplications_(spec, elts[i], depth + 1) : i \in reached})
             ELSE 0

Reapplications(spec, doc) == Reapplications_(spec, doc, 1)

----------------------------------------------------------------------------
(* JsonProcessor.conditional_product and its generator _curr_gen           *)

Mask(bs) == [k |-> "mask", v |-> bs]
Function(f) == [k |-> "function", v |-> f]
MapObject(f) == [k |-> "map_object", v |-> f]
IterObj(es) == [k |-> "iterobj", v |-> es]
Iterator(n) == [k |-> "iterator", v |-> n]
StopIteration == [k |-> "stop", v |-> 0]

Min(a, b) == IF a < b THEN a ELSE b

\* JsonProcessor.isiterable: iter(val) does not raise TypeError.
isiterable(val) == IsIterable(val) \/ val.k \in {"iterobj", "mask", "map_object"}

\* The elements iter(cell) runs over.
CellElements(cell) == IF cell.k = "iterobj" THEN cell.v ELSE Elements(cell)

\* key(val) for the predicate functions used as selectors:
\*   isiterable   JsonProcessor.isiterable, the default
\*   islist       lambda v: isinstance(v, list), make_csv's
\*   lenodd       lambda val: len(val) % 2, the docstring's
\* len() raises TypeError on a value without a length.
PredicateRaises(f, val) ==
    f = "lenodd" /\ val.k \notin {"list", "tuple", "str", "map"}

\* The truth of key(val), when the predicate returns.
PredicateTruth(f, val) ==
    CASE f = "isiterable" -> isiterable(val)
      [] f = "islist" -> val.k = "list"
      [] f = "lenodd" -> Len(val.v) % 2 # 0

\* A generator object: the frame of _curr_gen.
\*   st   "created" (body not entered), "suspended" (at the yield),
\*        "finished" (returned), "raised" (left by an exception)
Generator(st, v, ky, iters, curr, err) ==
    [st |-> st, vals |-> v, key |-> ky, iters |-> iters, curr |-> curr, err |-> err]

Absent == Generator("absent", <<>>, None, <<>>, <<>>, "")
Rejected(e) == Generator("rejected", <<>>, None, <<>>, <<>>, e)

\* Calling the generator function runs none of its body.
curr_gen(v, ky) == Generator("created", v, ky, <<>>, <<>>, "")

\* Mutant of conditional_product: the selector is examined only when the first
\* row is requested (the function is itself a generator).
conditional_product_deferred(v, ky) ==
    IF ky = None THEN curr_gen(v, MapObject("isiterable"))
    ELSE IF ky.k = "function" THEN curr_gen(v, MapObject(ky.v))
    ELSE curr_gen(v, ky)

RECURSIVE conditional_product(_, _)
\* The generator conditional_product returns, or the rejection it raises.
conditional_product(v, ky) ==
    LET ky1 == IF ky = None THEN Function("isiterable") ELSE ky IN
    IF ky1.k = "function" THEN conditional_product(v, MapObject(ky1.v))
    ELSE IF isiterable(ky1) THEN curr_gen(v, ky1)
    ELSE Rejected("ValueError")

\* What a resumption of the generator gives: the generator after it, the heap
\* after it, and the outcome (a tuple yielded, StopIteration, an exception).
Outcome(g, h, o) == [gen |-> g, heap |-> h, out |-> o]

Raise(g, h, e) ==
    Outcome(Generator("raised", g.vals, g.key, g.iters, g.curr, e), h, Err(e))

\* tuple(key): a mask as it is, a map object by calling the predicate on every
\* cell; the first exception of a predicate leaves it.
TupleOfKey(ky, v) ==
    IF ky.k = "mask" THEN ky
    ELSE IF ky.k = "map_object" THEN
        IF \E i \in 1..Len(v) : PredicateRaises(ky.v, v[i])
        THEN Err("TypeError")
        ELSE Mask([i \in 1..Len(v) |-> PredicateTruth(ky.v, v[i])])
    ELSE Err("TypeError")

\* Mutant of MakeIter: every iterator over a cell is the cell's one cursor.
MakeIter_shared(cell) == IterObj(CellElements(cell))

\* iter(cell): a one-shot iterator is its own iterator, a container gets a
\* fresh private one.
MakeIter(cell) == IF cell.k = "iterobj" THEN cell ELSE Iterator(0)

\* next(it) for the iterator at position idx: has it another element?
HasNext(it, v, h, idx) ==
    IF it.k = "iterobj" THEN h[idx] < Len(it.v)
    ELSE it.v < Len(CellElements(v[idx]))

NextElement(it, v, h, idx) ==
    IF it.k = "iterobj" THEN it.v[h[idx] + 1]
    ELSE CellElements(v[idx])[it.v + 1]

AfterNext(it) == IF it.k = "iterobj" THEN it ELSE Iterator(it.v + 1)
HeapAfterNext(it, h, idx) ==
    IF it.k = "iterobj" THEN [h EXCEPT ![idx] = @ + 1] ELSE h

IsIteratorObject(x) == x.k \in {"iterobj", "iterator"}

\* Lines 200-206: the first resumption, up to the first yield.
Start(g, h) ==
    LET v == g.vals
        tk == TupleOfKey(g.key, v)
        ky == tk.v
    IN  IF IsErr(tk) THEN Raise(g, h, tk.v)
        ELSE
        LET n == Min(Len(ky), Len(v))
            g1 == Generator("suspended", v, Mask(ky), <<>>, <<>>, "")
        IN  IF \E i \in 1..n : ky[i] /\ ~isiterable(v[i])
            THEN Raise(g1, h, "TypeError")
            ELSE
            LET iters == [i \in 1..n |-> IF ky[i] THEN MakeIter(v[i]) ELSE v[i]]
                g2 == Generator("suspended", v, Mask(ky), iters, <<>>, "")
                empty == {i \in 1..n : ky[i] /\ ~HasNext(iters[i], v, h, i)}
                \* the cells next() is called on before it raises
                upto == IF empty = {} THEN n
                        ELSE (CHOOSE i \in empty : \A j \in empty : i <= j) - 1
                h1 == [i \in DOMAIN h |->
                          IF i <= upto /\ ky[i] /\ iters[i].k = "iterobj"
                          THEN h[i] + 1 ELSE h[i]]
                iters1 == [i \in 1..n |->
                              IF i <= upto /\ ky[i] THEN AfterNext(iters[i]) ELSE iters[i]]
            IN  IF empty # {}
                \* StopIteration inside a generator body becomes RuntimeError
                THEN Raise(Generator("suspended", v, Mask(ky), iters1, <<>>, ""),
                           h1, "RuntimeError")
                ELSE
                LET curr == [i \in 1..n |->
                                IF ky[i] THEN NextElement(iters[i], v, h, i) ELSE iters[i]]
                IN  Outcome(Generator("suspended", v, Mask(ky), iters1, curr, ""),
                            h1, Tuple(curr))

RECURSIVE Odometer_forward(_, _, _)
\* Mutant of Odometer: the loop runs over the positions first to last, so the
\* first selected position varies fastest.
Odometer_forward(g, h, t) ==
    LET ky == g.key.v
        v == g.vals
        pred == ky[t + 1]
        idx == t + 1
    IN  IF t >= Min(Len(ky), Len(v))
        THEN Outcome(Generator("finished", v, g.key, g.iters, g.curr, ""), h, StopIteration)
        ELSE IF ~pred THEN Odometer_forward(g, h, t + 1)
        ELSE IF HasNext(g.iters[idx], v, h, idx)
        THEN LET curr == [g.curr EXCEPT ![idx] = NextElement(g.iters[idx], v, h, idx)]
                 iters == [g.iters EXCEPT ![idx] = AfterNext(@)]
             IN  Outcome(Generator("suspended", v, g.key, iters, curr, ""),
                         HeapAfterNext(g.iters[idx], h, idx), Tuple(curr))
        ELSE LET fresh == MakeIter(v[idx]) IN
             IF ~HasNext(fresh, v, h, idx)
             THEN Raise(g, h, "RuntimeError")
             ELSE Odometer_forward(
                    Generator("suspended", v, g.key,
                              [g.iters EXCEPT ![idx] = AfterNext(fresh)],
                              [g.curr EXCEPT ![idx] = NextElement(fresh, v, h, idx)], ""),
                    HeapAfterNext(fresh, h, idx), t + 1)

RECURSIVE Odometer_no_end(_, _, _)
\* Mutant of Odometer: when every selected iterator has been reset the loop
\* falls through to the yield instead of leaving the while loop.
Odometer_no_end(g, h, t) ==
    LET ky == g.key.v
        v == g.vals
        pred == ky[Len(ky) - t]
        idx == Len(v) - t
    IN  IF t >= Min(Len(ky), Len(v))
        THEN Outcome(Generator("suspended", v, g.key, g.iters, g.curr, ""), h, Tuple(g.curr))
        ELSE IF ~pred THEN Odometer_no_end(g, h, t + 1)
        ELSE IF HasNext(g.iters[idx], v, h, idx)
        THEN LET curr == [g.curr EXCEPT ![idx] = NextElement(g.iters[idx], v, h, idx)]
                 iters == [g.iters EXCEPT ![idx] = AfterNext(@)]
             IN  Outcome(Generator("suspended", v, g.key, iters, curr, ""),
                         HeapAfterNext(g.iters[idx], h, idx), Tuple(curr))
        ELSE LET fresh == MakeIter(v[idx]) IN
             IF ~HasNext(fresh, v, h, idx)
             THEN Raise(g, h, "RuntimeError")
             ELSE Odometer_no_end(
                    Generator("suspended", v, g.key,
                              [g.iters EXCEPT ![idx] = AfterNext(fresh)],
                              [g.curr EXCEPT ![idx] = NextElement(fresh, v, h, idx)], ""),
                    HeapAfterNext(fresh, h, idx), t + 1)

RECURSIVE Odometer(_, _, _)
\* Lines 207-224: the for loop from its t-th iteration on (t from 0); it pairs
\* reversed(key)[t] with the index len(vals)-1-t.
Odometer(g, h, t) ==
    LET ky == g.key.v
        v == g.vals
        pred == ky[Len(ky) - t]
        idx == Len(v) - t
    IN  IF t >= Min(Len(ky), Len(v))
        THEN Outcome(Generator("finished", v, g.key, g.iters, g.curr, ""), h, StopIteration)
        ELSE IF ~pred THEN Odometer(g, h, t + 1)
        ELSE IF idx > Len(g.iters) THEN Raise(g, h, "IndexError")
        ELSE IF ~IsIteratorObject(g.iters[idx]) THEN Raise(g, h, "TypeError")
        ELSE IF HasNext(g.iters[idx], v, h, idx)
        THEN LET curr == [g.curr EXCEPT ![idx] = NextElement(g.iters[idx], v, h, idx)]
                 iters == [g.iters EXCEPT ![idx] = AfterNext(@)]
             IN  Outcome(Generator("suspended", v, g.key, iters, curr, ""),
                         HeapAfterNext(g.iters[idx], h, idx), Tuple(curr))
        ELSE LET fresh == MakeIter(v[idx])
                 iters == [g.iters EXCEPT ![idx] = fresh]
             IN  IF ~HasNext(fresh, v, h, idx)
                 \* next() raises StopIteration inside the except clause
                 THEN Raise(Generator("suspended", v, g.key, iters, g.curr, ""),
                            h, "RuntimeError")
                 ELSE Odometer(
                        Generator("suspended", v, g.key,
                                  [iters EXCEPT ![idx] = AfterNext(@)],
                                  [g.curr EXCEPT ![idx] = NextElement(fresh, v, h, idx)], ""),
                        HeapAfterNext(fresh, h, idx), t + 1)

\* next(generator)
Resume(g, h) ==
    IF g.st = "created" THEN Start(g, h)
    ELSE IF g.st = "suspended" THEN Odometer(g, h, 0)
    ELSE Outcome(g, h, StopIteration)

\* The iterator positions behind the tuple a generator has just yielded.
Positions(g, h) ==
    [i \in 1..Len(g.iters) |->
        IF g.iters[i].k = "iterator" /\ g.key.v[i] THEN g.iters[i].v
        ELSE IF g.iters[i].k = "iterobj" /\ g.key.v[i] THEN h[i]
        ELSE 0]

----------------------------------------------------------------------------
(* The expansion state machine: a row and a selector, the call, and a      *)
(* consumer that requests rows one at a time or gives up.                  *)

MaxRow == 3
MaxPairRow == 2
Gens == {1, 2}

Cells == {Num(7), Str(<<"a", "b">>), List(<<>>), List(<<Num(1)>>),
          List(<<Num(1), Num(2)>>), IterObj(<<Num(1), Num(2)>>)}

RECURSIVE SeqsOver(_, _)
SeqsOver(S, n) ==
    IF n = 0 THEN {<<>>} ELSE {<<x>> \o s : x \in S, s \in SeqsOver(S, n - 1)}

Rows(n) == UNION {SeqsOver(Cells, m) : m \in 0..n}

\* The selectors offered for a row: no key, the predicates, every mask of the
\* row's length, and a number (neither callable nor iterable).
Selectors(v) ==
    {None, Function("isiterable"), Function("islist"), Function("lenodd"), Num(5)}
    \cup {Mask(m) : m \in SeqsOver(BOOLEAN, Len(v))}

ProductIdle ==
    /\ vals = <<>>
    /\ key = None
    /\ gen = [g \in Gens |-> Absent]
    /\ heap = <<>>
    /\ out = [g \in Gens |-> <<>>]
    /\ trail = [g \in Gens |-> <<>>]

SpecifierIdle ==
    /\ json = None
    /\ tuple = <<>>
    /\ result = None
    /\ phase = "idle"

CsvIdle ==
    /\ column_specifiers = <<>>
    /\ context_specifier = <<>>
    /\ take_product = FALSE

InitProduct(n) ==
    /\ vals \in Rows(n)
    /\ key \in Selectors(vals)
    /\ gen = [g \in Gens |-> Absent]
    /\ heap = [i \in 1..Len(vals) |-> 0]
    /\ out = [g \in Gens |-> <<>>]
    /\ trail = [g \in Gens |-> <<>>]
    /\ SpecifierIdle
    /\ CsvIdle

\* gen[g] = JsonProcessor.conditional_product(vals, key)
Call(g) ==
    /\ gen[g].st = "absent"
    /\ gen' = [gen EXCEPT ![g] = conditional_product(vals, key)]
    /\ UNCHANGED <<vals, key, heap, out, trail>>
    /\ UNCHANGED <<specifierVars, csvVars>>

\* next(gen[g])
Advance(g) ==
    /\ gen[g].st \in {"created", "suspended"}
    /\ LET r == Resume(gen[g], heap) IN
       /\ gen' = [gen EXCEPT ![g] = r.gen]
       /\ heap' = r.heap
       /\ IF r.out.k = "tuple"
          THEN /\ out' = [out EXCEPT ![g] = Append(@, r.out)]
               /\ trail' = [trail EXCEPT ![g] = Append(@, Positions(r.gen, r.heap))]
          ELSE UNCHANGED <<out, trail>>
    /\ UNCHANGED <<vals, key>>
    /\ UNCHANGED <<specifierVars, csvVars>>

\* The consumer stops asking and drops the generator (generator.close()).
Abandon(g) ==
    /\ gen[g].st \in {"created", "suspended"}
    /\ gen' = [gen EXCEPT ![g].st = "closed"]
    /\ UNCHANGED <<vals, key, heap, out, trail>>
    /\ UNCHANGED <<specifierVars, csvVars>>

Init == InitProduct(MaxRow)

Next ==
    \/ Call(1)
    \/ Advance(1)
    \/ Abandon(1)

Spec == Init /\ [][Next]_vars

InitPair == InitProduct(MaxPairRow)

NextPair ==
    \/ \E g \in Gens : Call(g)
    \/ \E g \in Gens : Advance(g)
    \/ \E g \in Gens : Abandon(g)

SpecPair == InitPair /\ [][NextPair]_vars

----------------------------------------------------------------------------
(* JsonProcessor.make_csv                                                  *)
(* The value returned is modelled as the records handed to csv.writer, the *)
(* header first; how csv.writer renders a record as text is not modelled.  *)

RECURSIVE Drain(_, _)
\* Consuming a generator to its end: the tuples it yields and the exception
\* that ends it, "" when it ends by returning.
Drain(g, h) ==
    LET r == Resume(g, h) IN
    IF r.out.k = "tuple"
    THEN LET more == Drain(r.gen, r.heap) IN
         [rows |-> <<r.out>> \o more.rows, err |-> more.err]
    ELSE IF IsErr(r.out) THEN [rows |-> <<>>, err |-> r.out.v]
    ELSE [rows |-> <<>>, err |-> ""]

RECURSIVE Chain(_)
\* chain(*generators), consumed by writer.writerows: the rows written before
\* the first exception, and that exception.
Chain(gens) ==
    IF gens = <<>> THEN [rows |-> <<>>, err |-> ""]
    ELSE LET first == Drain(Head(gens), <<>>) IN
         IF first.err # "" THEN first
         ELSE LET more == Chain(Tail(gens)) IN
              [rows |-> first.rows \o more.rows, err |-> more.err]

MinLen(columns) ==
    IF columns = <<>> THEN 0
    ELSE CHOOSE n \in {Len(Elements(columns[i])) : i \in 1..Len(columns)} :
            \A i \in 1..Len(columns) : n <= Len(Elements(columns[i]))

\* zip(*columns)
Zip(columns) ==
    [r \in 1..MinLen(columns) |->
        Tuple([c \in 1..Len(columns) |-> Elements(columns[c])[r]])]

\* JsonProcessor(doc).make_csv(columnSpecs, contextSpec, takeProduct)
make_csv(doc, columnSpecs, contextSpec, takeProduct) ==
    LET w_context == apply(contextSpec, doc)
        column_data == [c \in 1..Len(columnSpecs) |-> apply(columnSpecs[c][2], w_context)]
    IN  IF IsErr(w_context) THEN w_context
        ELSE IF \E c \in 1..Len(columnSpecs) : IsErr(column_data[c])
        THEN column_data[CHOOSE c \in 1..Len(columnSpecs) :
                IsErr(column_data[c]) /\ \A d \in 1..(c - 1) : ~IsErr(column_data[d])]
        ELSE IF \E c \in 1..Len(columnSpecs) : ~IsIterable(column_data[c])
        THEN Err("TypeError")
        ELSE
        LET rows == Zip(column_data)
            header == Tuple([c \in 1..Len(columnSpecs) |-> Str(<<columnSpecs[c][1]>>)])
            written ==
                IF takeProduct
                THEN Chain([r \in 1..Len(rows) |->
                                conditional_product(rows[r].v, Function("islist"))])
                ELSE [rows |-> rows, err |-> ""]
        IN  IF written.err # "" THEN Err(written.err)
            ELSE List(<<header>> \o written.rows)

----------------------------------------------------------------------------
(* Inputs: every document of at most MaxNodes nodes, every specifier of at *)
(* most MaxSteps steps.                                                    *)

MaxNodes == 4
MaxSteps == 2

Names == {"a", "b"}
NameOrder == <<"a", "b">>
Scalars == {Num(1), Str(<<"x">>)}
Steps == {Name("a"), Index(0)} \cup tokens

RECURSIVE DocsOfSize(_)
RECURSIVE SeqsOfSize(_)
RECURSIVE EntriesOfSize(_, _)

\* The sequences of documents with n nodes in all.
SeqsOfSize(n) ==
    IF n = 0 THEN {<<>>}
    ELSE UNION {{<<d>> \o s : d \in DocsOfSize(m), s \in SeqsOfSize(n - m)} : m \in 1..n}

\* The entry sequences over the names NameOrder[j..], n nodes in all.
EntriesOfSize(n, j) ==
    IF j > Len(NameOrder) THEN (IF n = 0 THEN {<<>>} ELSE {})
    ELSE EntriesOfSize(n, j + 1) \cup
         UNION {{<<<<NameOrder[j], d>>>> \o es :
                    d \in DocsOfSize(m), es \in EntriesOfSize(n - m, j + 1)} : m \in 1..n}

DocsOfSize(n) ==
    IF n = 1 THEN Scalars \cup {List(<<>>), Map(<<>>)}
    ELSE {List(s) : s \in SeqsOfSize(n - 1)} \cup {Map(es) : es \in EntriesOfSize(n - 1, 1)}

DocsUpTo(n) == UNION {DocsOfSize(m) : m \in 1..n}

RECURSIVE SpecsOfLen(_)
SpecsOfLen(n) ==
    IF n = 0 THEN {<<>>}
    ELSE {<<s>> \o t : s \in Steps, t \in SpecsOfLen(n - 1)}

SpecsUpTo(n) == UNION {SpecsOfLen(m) : m \in 0..n}

----------------------------------------------------------------------------
(* The specifier state machine: a document and a specifier, then the call. *)

InitApply ==
    /\ json \in DocsUpTo(MaxNodes)
    /\ tuple \in SpecsUpTo(MaxSteps)
    /\ result = None
    /\ phase = "input"
    /\ CsvIdle
    /\ ProductIdle

Apply ==
    /\ phase = "input"
    /\ result' = apply(tuple, json)
    /\ phase' = "applied"
    /\ UNCHANGED <<json, tuple>>
    /\ UNCHANGED <<csvVars, productVars>>

NextApply == Apply

SpecApply == InitApply /\ [][NextApply]_vars

----------------------------------------------------------------------------
(* The make_csv state machine: a document of columns "a" and "b", given    *)
(* either as one dict of two lists or as a list of records, then the call. *)

MaxCsvRows == 2

CsvCells == {Num(7), Str(<<"a", "b">>), Map(<<<<"a", Num(1)>>>>), List(<<>>),
             List(<<Num(1), Num(2)>>)}

CsvColumns(n) == UNION {SeqsOver(CsvCells, m) : m \in 0..n}

Record(a, b) == Map(<<<<"a", a>>, <<"b", b>>>>)

CsvDocs(n) ==
    {Record(List(a), List(b)) : a \in CsvColumns(n), b \in CsvColumns(n)}
    \cup UNION {{List(rs) : rs \in SeqsOver({Record(a, b) : a \in CsvCells, b \in CsvCells}, m)}
                    : m \in 0..n}

ColumnChoices ==
    {<<>>, <<<<"a", <<Name("a")>>>>>>, <<<<"b", <<Name("b")>>>>>>,
     <<<<"a", <<Name("a")>>>>, <<"b", <<Name("b")>>>>>>,
     <<<<"b", <<Name("b")>>>>, <<"a", <<Name("a")>>>>>>}

InitCsv ==
    /\ json \in CsvDocs(MaxCsvRows)
    /\ column_specifiers \in ColumnChoices
    /\ context_specifier \in {<<>>, <<FLATTEN>>}
    /\ take_product \in BOOLEAN
    /\ tuple = <<>>
    /\ result = None
    /\ phase = "input"
    /\ ProductIdle

MakeCsv ==
    /\ phase = "input"
    /\ result' = make_csv(json, column_specifiers, context_specifier, take_product)
    /\ phase' = "written"
    /\ UNCHANGED <<json, tuple, csvVars, productVars>>

NextCsv == MakeCsv

SpecCsv == InitCsv /\ [][NextCsv]_vars

----------------------------------------------------------------------------
(* Claims about Specifier.apply, checked under SpecApply.                  *)

Applied == phase = "applied" /\ tuple # <<>>
IsKey(step) == step.k \in {"name", "index"}

\* d supports the key: applying the key step alone to d returns a value.
Supports(d, step) == ~IsErr(apply(<<step>>, d))

\* [f(d1), ..., f(dn)] as Python evaluates it: the first exception leaves it.
MapOver(rs) ==
    IF \E i \in 1..Len(rs) : IsErr(rs[i])
    THEN rs[CHOOSE i \in 1..Len(rs) : IsErr(rs[i]) /\ \A j \in 1..(i - 1) : ~IsErr(rs[j])]
    ELSE List(rs)

BroadcastEquation ==
    result = MapOver([i \in 1..Len(json.v) |-> apply(tuple, json.v[i])])

\* C4 as stated: for every specifier headed by a key, a string name or an
\* integer index, and every list of documents each of which supports the key,
\* applying the specifier to the list equals applying it to each document in
\* order (stated for lists of at least one document).
C4_BroadcastAnyKey ==
    (/\ Applied
     /\ IsKey(Head(tuple))
     /\ IsList(json)
     /\ Len(json.v) >= 1
     /\ \A i \in 1..Len(json.v) : Supports(json.v[i], Head(tuple)))
    => BroadcastEquation

\* C4 amended: the same for specifiers headed by a string name.
C4_BroadcastName ==
    (/\ Applied
     /\ Head(tuple).k = "name"
     /\ IsList(json)
     /\ \A i \in 1..Len(json.v) : Supports(json.v[i], Head(tuple)))
    => BroadcastEquation

C4_Witness ==
    /\ Applied
    /\ Head(tuple).k = "name"
    /\ IsList(json)
    /\ Len(json.v) = 2
    /\ json.v[1].k = "map"
    /\ \A i \in 1..2 : Supports(json.v[i], Head(tuple))
    /\ IsList(result)
    /\ Len(result.v) = 2
    /\ result.v[1] # result.v[2]

\* C5: an UNPACK step returns the concatenation of the elements of v, the value
\* of the remaining specifier, when v is a list of lists, and v itself in every
\* other case.
C5_Unpack ==
    (Applied /\ Head(tuple) = UNPACK /\ ~IsErr(apply(Tail(tuple), json)))
    => LET v == apply(Tail(tuple), json) IN
       result = IF IsList(v) /\ \A i \in 1..Len(v.v) : IsList(v.v[i])
                THEN List(Concat([i \in 1..Len(v.v) |-> v.v[i].v]))
                ELSE v

RECURSIVE Leaves(_)
\* The non-list leaves under a stack of values, depth first, left to right.
Leaves(stack) ==
    IF stack = <<>> THEN <<>>
    ELSE IF IsList(Head(stack)) THEN Leaves(Head(stack).v \o Tail(stack))
    ELSE <<Head(stack)>> \o Leaves(Tail(stack))

\* C6: a FLATTEN step returns a flat list: its elements are the non-list leaves
\* of the value of the remaining specifier in depth-first order, none of them
\* is a list, and flattening the result again changes nothing.
C6_Flatten ==
    (Applied /\ Head(tuple) = FLATTEN /\ ~IsErr(apply(Tail(tuple), json)))
    => /\ result = List(Leaves(<<apply(Tail(tuple), json)>>))
       /\ \A i \in 1..Len(result.v) : ~IsList(result.v[i])
       /\ flatten(result) = result

C6_Witness ==
    /\ Applied
    /\ Head(tuple) = FLATTEN
    /\ LET v == apply(Tail(tuple), json) IN
       /\ IsList(v)
       /\ \E i \in 1..Len(v.v) : IsList(v.v[i])
       /\ \E i \in 1..Len(v.v) : ~IsList(v.v[i])
    /\ IsList(result)
    /\ Len(result.v) = 2
    /\ result.v[1] # result.v[2]

\* The container is of the kind the key indexes and does not hold the key.
Lacks(doc, step) ==
    \/ doc.k = "map" /\ step.k = "name" /\ \A i \in 1..Len(doc.v) : doc.v[i][1] # step.v
    \/ doc.k = "list" /\ step.k = "index" /\ ~(-Len(doc.v) <= step.v /\ step.v < Len(doc.v))

IsMissing(x) == IsErr(x) /\ x.v \in {"KeyError", "IndexError"}

RECURSIVE NoErrorInside(_)
NoErrorInside(x) ==
    CASE x.k \in {"list", "tuple"} -> \A i \in 1..Len(x.v) : NoErrorInside(x.v[i])
      [] x.k = "map" -> \A i \in 1..Len(x.v) : NoErrorInside(x.v[i][2])
      [] OTHER -> x.k \in {"num", "str"}

\* The outcome of the first element whose application does not return, when
\* that is a missing key.
FirstMissing(spec, elts) ==
    IF \E i \in 1..Len(elts) :
            /\ IsMissing(apply(spec, elts[i]))
            /\ \A j \in 1..(i - 1) : ~IsErr(apply(spec, elts[j]))
    THEN apply(spec, elts[CHOOSE i \in 1..Len(elts) : IsErr(apply(spec, elts[i]))
                              /\ \A j \in 1..(i - 1) : ~IsErr(apply(spec, elts[j]))])
    ELSE None

\* C7: a key step that meets a dict without the name, or a list without the
\* index, ends apply in KeyError or IndexError: at the head of the specifier,
\* after a key that was found, inside a broadcast over a list and beneath
\* FLATTEN, UNPACK and KEEP_ALL; and what apply returns holds no exception and
\* no placeholder in place of an element.
C7_MissingKeyReachesCaller ==
    Applied =>
    LET head == Head(tuple)
        rest == Tail(tuple)
        found == apply(rest, GetItem(json, head))
        inList == FirstMissing(tuple, json.v)
        inKept == FirstMissing(rest, json.v)
        beneath == apply(rest, json)
    IN  /\ IsErr(result) \/ NoErrorInside(result)
        /\ (IsKey(head) /\ Lacks(json, head)) => IsMissing(result)
        /\ (IsKey(head) /\ ~IsErr(GetItem(json, head)) /\ IsMissing(found))
            => result = found
        /\ (head.k = "name" /\ IsList(json) /\ inList # None) => result = inList
        /\ (head = KEEP_ALL /\ IsList(json) /\ inKept # None) => result = inKept
        /\ (head \in {FLATTEN, UNPACK} /\ IsMissing(beneath)) => result = beneath

C7_Witness ==
    /\ Applied
    /\ Len(tuple) = 2
    /\ Head(tuple) = FLATTEN
    /\ tuple[2].k = "name"
    /\ IsList(json)
    /\ Len(json.v) = 2
    /\ json.v[1].k = "map"
    /\ ~Lacks(json.v[1], tuple[2])
    /\ Lacks(json.v[2], tuple[2])
    /\ result = Err("KeyError")

KeepAllBeforeDirective ==
    /\ Applied
    /\ Len(tuple) = 2
    /\ Head(tuple) = KEEP_ALL
    /\ tuple[2] \in {FLATTEN, UNPACK}
    /\ IsList(json)
    /\ Len(json.v) = 2
    /\ IsList(result)
    /\ result # apply(Tail(tuple), json)

RECURSIVE SequenceDepth(_)

\* The greatest number of lists on a path from the document to a leaf.
SequenceDepth(doc) ==
    CASE doc.k = "list" ->
            1 + Greatest({0} \cup {SequenceDepth(doc.v[i]) : i \in 1..Len(doc.v)})
      [] doc.k = "map" ->
            Greatest({0} \cup {SequenceDepth(doc.v[i][2]) : i \in 1..Len(doc.v)})
      [] OTHER -> 0

\* C12 as stated: for every specifier and every document, apply returns a
\* value or ends in an exception other than the interpreter's RecursionError,
\* and the nested re-applications of the same specifier by broadcast are at
\* most the document's Sequence nesting depth; so a string name that reaches
\* a text string, a number, a boolean or null is not re-applied without end.
C12_ApplyTerminates ==
    (phase = "applied")
    => /\ result # Err("RecursionError")
       /\ Reapplications(tuple, json) <= SequenceDepth(json)

\* The same for calls that do not end in RecursionError: what the claim says
\* holds of every call in which no string name reaches a non-empty text
\* string.
ReapplicationsWithinSequenceDepth ==
    (phase = "applied" /\ result # Err("RecursionError"))
    => Reapplications(tuple, json) <= SequenceDepth(json)

----------------------------------------------------------------------------
(* Claims about conditional_product, checked under Spec (one generator)    *)
(* and SpecPair (two generators over the same row).                        *)

IsContainer(cell) == cell.k \in {"list", "tuple", "str", "map"}
CellLen(row, i) == Len(CellElements(row[i]))

RECURSIVE LengthsFrom(_, _, _)
\* The product of the lengths of the selected cells at positions i and after.
LengthsFrom(row, mask, i) ==
    IF i > Len(row) THEN 1
    ELSE (IF mask[i] THEN CellLen(row, i) ELSE 1) * LengthsFrom(row, mask, i + 1)

Total(row, mask) == LengthsFrom(row, mask, 1)

\* The n-th combination (n from 0) of the cartesian product of the selected
\* cells in mixed radix, the last selected position the least significant;
\* an unselected cell stands for itself.
Combination(row, mask, n) ==
    Tuple([i \in 1..Len(row) |->
            IF mask[i]
            THEN CellElements(row[i])[((n \div LengthsFrom(row, mask, i + 1)) % CellLen(row, i)) + 1]
            ELSE row[i]])

CartesianProduct(row, mask) ==
    [n \in 1..Total(row, mask) |-> Combination(row, mask, n - 1)]

\* The selector is a boolean mask of the row's length.
MaskGiven == key.k = "mask" /\ Len(key.v) = Len(vals)
NonEmptyContainer(cell) == IsContainer(cell) /\ Len(Elements(cell)) >= 1
EmptyContainer(cell) == IsContainer(cell) /\ Len(Elements(cell)) = 0
SelectedAreContainers == \A i \in 1..Len(vals) : key.v[i] => IsContainer(vals[i])
SelectedAreNonEmpty == \A i \in 1..Len(vals) : key.v[i] => NonEmptyContainer(vals[i])
Called(g) == gen[g].st # "absent"
Failed(g) == gen[g].st \in {"raised", "rejected"}

\* C1: for a mask of the row's length whose selected cells are non-empty
\* containers, the tuples yielded are, in order, the cartesian product of the
\* selected cells with the last selected position varying fastest and every
\* unselected cell copied at its position: a prefix of it while the generator
\* runs, all of it once the generator has finished.
C1_ProductOrder ==
    (MaskGiven /\ SelectedAreNonEmpty) =>
        /\ ~Failed(1)
        /\ Len(out[1]) <= Total(vals, key.v)
        /\ out[1] = SubSeq(CartesianProduct(vals, key.v), 1, Len(out[1]))
        /\ gen[1].st = "finished" => out[1] = CartesianProduct(vals, key.v)

C1_Witness ==
    /\ MaskGiven
    /\ SelectedAreNonEmpty
    /\ Len(vals) = 3
    /\ \E i \in 1..3 : ~key.v[i] /\ IsList(vals[i])
    /\ gen[1].st = "finished"
    /\ Len(out[1]) = 4

NoRepeat(s) == \A a, b \in 1..Len(s) : a # b => s[a] # s[b]

\* C2: for a mask whose selected cells have lengths L_i >= 1 the generator
\* yields the product of the L_i tuples and then stops: it yields while fewer
\* have been yielded, the request after the last one ends it, and no
\* combination of iterator positions is yielded twice; with no position
\* selected it yields the row once and stops.
C2_Terminates ==
    (MaskGiven /\ SelectedAreNonEmpty) =>
        /\ ~Failed(1)
        /\ Len(out[1]) <= Total(vals, key.v)
        /\ NoRepeat(trail[1])
        /\ gen[1].st = "finished" => Len(out[1]) = Total(vals, key.v)
        /\ (gen[1].st \in {"created", "suspended"} /\ Len(out[1]) < Total(vals, key.v))
            => Resume(gen[1], heap).out.k = "tuple"
        /\ (gen[1].st = "suspended" /\ Len(out[1]) = Total(vals, key.v))
            => Resume(gen[1], heap).out = StopIteration
        /\ ((\A i \in 1..Len(vals) : ~key.v[i]) /\ gen[1].st = "finished")
            => out[1] = <<Tuple(vals)>>

C2_Witness ==
    /\ MaskGiven
    /\ SelectedAreNonEmpty
    /\ gen[1].st = "finished"
    /\ Len(out[1]) = 8
    /\ Total(vals, key.v) = 8

\* C3: when a selected cell is an empty container the generator yields nothing
\* and ends by returning, with no exception.
C3_EmptyCellYieldsNothing ==
    (/\ MaskGiven
     /\ SelectedAreContainers
     /\ \E i \in 1..Len(vals) : key.v[i] /\ EmptyContainer(vals[i])
     /\ gen[1].st \in {"suspended", "finished", "raised"})
    => gen[1].st = "finished" /\ out[1] = <<>>

\* The selector is a predicate function or an iterable mask (no key stands
\* for the default predicate).
ValidSelector == key = None \/ key.k \in {"function", "mask"}

\* C10: a selector that is neither callable nor iterable is rejected by the
\* call itself with ValueError: no generator comes back, no iterator over a
\* cell has been made and no row can be requested; a valid selector is never
\* rejected.
C10_InvalidSelectorRejected ==
    Called(1) =>
        /\ ~ValidSelector =>
              /\ gen[1] = Rejected("ValueError")
              /\ out[1] = <<>>
              /\ heap = [i \in 1..Len(vals) |-> 0]
              /\ ~ENABLED Advance(1)
        /\ ValidSelector => gen[1].st # "rejected" /\ gen[1].err # "ValueError"

C10_Witness ==
    /\ ~ValidSelector
    /\ Len(vals) >= 1
    /\ gen[1].st = "rejected"

\* The mask the selector stands for, when it stands for one.
Resolved == TupleOfKey(conditional_product(vals, key).key, vals)
Alone == Drain(conditional_product(vals, key), [i \in 1..Len(vals) |-> 0])

\* C9: when the selected cells are containers, two expansions of the row
\* advanced in any interleaving, either of them possibly abandoned, each yield
\* what an expansion running alone yields, in the same order and ending the
\* same way, and no cell of the row is advanced.
C9_NoSideChannel ==
    (/\ ValidSelector
     /\ ~IsErr(Resolved)
     /\ \A i \in 1..Len(vals) : Resolved.v[i] => IsContainer(vals[i]))
    => /\ heap = [i \in 1..Len(vals) |-> 0]
       /\ \A g \in Gens :
            /\ Len(out[g]) <= Len(Alone.rows)
            /\ out[g] = SubSeq(Alone.rows, 1, Len(out[g]))
            /\ gen[g].st \in {"finished", "raised"}
                => out[g] = Alone.rows /\ gen[g].err = Alone.err

C9_Witness ==
    /\ ValidSelector
    /\ ~IsErr(Resolved)
    /\ \A i \in 1..Len(vals) : Resolved.v[i] => IsContainer(vals[i])
    /\ gen[1].st = "closed"
    /\ Len(out[1]) = 1
    /\ gen[2].st = "finished"
    /\ Len(out[2]) = 4

----------------------------------------------------------------------------
(* Claims about make_csv, checked under SpecCsv.                           *)

ColumnData == [c \in 1..Len(column_specifiers) |->
                 apply(column_specifiers[c][2], apply(context_specifier, json))]
Header == Tuple([c \in 1..Len(column_specifiers) |-> Str(<<column_specifiers[c][1]>>)])
ListMask(row) == [i \in 1..Len(row) |-> IsList(row[i])]

\* The extraction succeeded and every column is a list.
ColumnsAreLists ==
    /\ ~IsErr(apply(context_specifier, json))
    /\ \A c \in 1..Len(column_specifiers) : IsList(ColumnData[c])

ShortestColumn ==
    IF column_specifiers = <<>> THEN 0
    ELSE CHOOSE n \in {Len(ColumnData[c].v) : c \in 1..Len(column_specifiers)} :
            \A c \in 1..Len(column_specifiers) : n <= Len(ColumnData[c].v)

ZippedRow(r) == [c \in 1..Len(column_specifiers) |-> ColumnData[c].v[r]]

ExpandedRows ==
    Concat([r \in 1..ShortestColumn |-> CartesianProduct(ZippedRow(r), ListMask(ZippedRow(r)))])

\* C8: with take_product set make_csv emits the header of column names and
\* then, row after row of the columns zipped up to the shortest, the cartesian
\* expansion of the row over its list cells alone.
C8_MakeCsvExpandsRows ==
    (phase = "written" /\ take_product /\ ColumnsAreLists)
    => result = List(<<Header>> \o ExpandedRows)

\* The same when no cell of a zipped row is an empty list (the rows C3's
\* exception does not reach).
MakeCsvExpandsRowsWithoutEmptyCells ==
    (/\ phase = "written"
     /\ take_product
     /\ ColumnsAreLists
     /\ \A r \in 1..ShortestColumn : \A c \in 1..Len(column_specifiers) :
            ZippedRow(r)[c] # List(<<>>))
    => result = List(<<Header>> \o ExpandedRows)

====
